---- MODULE Spec2Model ----
(***************************************************************************)
(* Model of the retro GitHub agent (server.js): the webhook handler, the   *)
(* job sequence of processRepo, the tagged-block parser and the file       *)
(* applier.                                                                *)
(*                                                                         *)
(* Text is a sequence of tokens: a token is one lexical unit that the two  *)
(* regular expressions of parseFileOperations see as a whole (an opening   *)
(* <file path="p"> tag, a closing </file> tag, a <delete path="p"/> tag,   *)
(* or one character).  File contents are token sequences too, so a tag     *)
(* that sits inside a file's content is still that tag's text.             *)
(***************************************************************************)
EXTENDS Integers, Sequences, FiniteSets, TLC

VARIABLES
    env,         \* process.env: which credentials are set
    fs,          \* the disk: absolute file path -> content, or Absent
    git,         \* per repository: local copy exists, HEAD tree, index, remote tree
    job,         \* per webhook request: position in processRepo and its locals
    log,         \* the lines written by log()
    effects,     \* the file-system calls made by applyFileOperations, by caller
    response,    \* parser/applier harness: the text handed to parseFileOperations
    operations,  \* parser/applier harness: the value parseFileOperations returned
    phase,       \* parser/applier harness: "text", "parsed" or "applied"
    promptIn,    \* commit-message harness: the prompt, a sequence of characters
    shortPrompt  \* commit-message harness: the text derived from it, <<>> before

vars == <<env, fs, git, job, log, effects, response, operations, phase, promptIn, shortPrompt>>

----------------------------------------------------------------------------
(* Bounds *)

\* longest response text (in tokens) the parser/applier harness enumerates
MaxLen == 4

\* longest prompt (in characters) the commit-message harness enumerates
MaxPromptLen == 75

\* longest operation sequence the applier harness enumerates
MaxOps == 3

----------------------------------------------------------------------------
(* Tokens and text *)


Open(p)  == [k |-> "open",  v |-> p]     \* <file path="p">
Close    == [k |-> "close", v |-> ""]    \* </file>
Del(p)   == [k |-> "del",   v |-> p]     \* <delete path="p"/>
Ch(c)    == [k |-> "ch",    v |-> c]     \* one character of prose or content
NL       == Ch("\n")

\* the content of a file that does not exist (no text holds this token)
Absent == <<[k |-> "enoent", v |-> ""]>>

\* the content of a file that exists and whose readFileSync throws
Unreadable == <<[k |-> "eacces", v |-> ""]>>

\* the relative paths a backend response names in this model
PathNames == {"a", "../x", ".git/c"}

\* the relative paths of the files a working copy holds when getRepoFiles
\* is walked on its own
WalkNames == {"a", ".env", ".git/c", "node_modules/m", "sub/b", "sub/.env", "sub/.git/c"}

\* path components of a relative path (splitting at "/")
Segs(p) ==
    CASE p = "a"              -> <<"a">>
      [] p = "../x"           -> <<"..", "x">>
      [] p = ".git/c"         -> <<".git", "c">>
      [] p = "node_modules/m" -> <<"node_modules", "m">>
      [] p = "sub/b"          -> <<"sub", "b">>
      [] p = "sub/.env"       -> <<"sub", ".env">>
      [] p = "sub/.git/c"     -> <<"sub", ".git", "c">>
      [] OTHER                -> <<p>>

IsSpace(t) == t.k = "ch" /\ t.v \in {" ", "\n"}

RECURSIVE TrimStart(_)
TrimStart(s) ==
    IF s # <<>> /\ IsSpace(Head(s)) THEN TrimStart(Tail(s)) ELSE s

RECURSIVE TrimEnd(_)
TrimEnd(s) ==
    IF s # <<>> /\ IsSpace(s[Len(s)]) THEN TrimEnd(SubSeq(s, 1, Len(s) - 1)) ELSE s

\* String.prototype.trim
Trim(s) == TrimEnd(TrimStart(s))

----------------------------------------------------------------------------
(* parseFileOperations *)

\* mutant: [^"]* , an empty path attribute matches too
PathAttrAny(t) == TRUE

\* [^"]+ : the path attribute must be non-empty
PathAttrOk(t) == t.v # ""

\* position of the first </file> after position s, 0 if none  ([\s\S]*?<\/file>)
FirstCloseAfter(t, s) ==
    IF \E e \in (s + 1)..Len(t) : t[e].k = "close"
    THEN CHOOSE e \in (s + 1)..Len(t) :
            /\ t[e].k = "close"
            /\ \A d \in (s + 1)..(e - 1) : t[d].k # "close"
    ELSE 0

\* fileRegex matches starting at s
FileMatchAt(t, s) ==
    /\ t[s].k = "open"
    /\ PathAttrOk(t[s])
    /\ FirstCloseAfter(t, s) # 0

\* fileRegex.exec with lastIndex = from: start of the leftmost match, 0 if none
FileRegexExec(t, from) ==
    IF \E s \in from..Len(t) : FileMatchAt(t, s)
    THEN CHOOSE s \in from..Len(t) :
            /\ FileMatchAt(t, s)
            /\ \A r \in from..(s - 1) : ~FileMatchAt(t, r)
    ELSE 0

\* the first while loop: one write operation per match, content trimmed
RECURSIVE FileLoop(_, _)
FileLoop(t, from) ==
    LET s == FileRegexExec(t, from) IN
    IF s = 0 THEN <<>>
    ELSE LET e == FirstCloseAfter(t, s) IN
         <<[type |-> "write", path |-> t[s].v,
            content |-> Trim(SubSeq(t, s + 1, e - 1))]>>
         \o FileLoop(t, e + 1)

\* deleteRegex matches at s
DeleteMatchAt(t, s) == t[s].k = "del" /\ PathAttrOk(t[s])

\* the second while loop: one delete operation per match, over the whole text
RECURSIVE DeleteLoop(_, _)
DeleteLoop(t, from) ==
    IF from > Len(t) THEN <<>>
    ELSE IF DeleteMatchAt(t, from)
         THEN <<[type |-> "delete", path |-> t[from].v]>> \o DeleteLoop(t, from + 1)
         ELSE DeleteLoop(t, from + 1)

\* operations: every write match first, then every delete match
parseFileOperations(t) == FileLoop(t, 1) \o DeleteLoop(t, 1)

----------------------------------------------------------------------------
(* Paths and applyFileOperations *)

Repos == {"r1"}

WORKSPACE_DIR == <<"app", "workspace">>

\* path.normalize on a component list: ".." removes the component before it
RECURSIVE Normalize(_, _)
Normalize(done, rest) ==
    IF rest = <<>> THEN done
    ELSE IF Head(rest) = ".."
         THEN Normalize(IF done = <<>> THEN <<>> ELSE SubSeq(done, 1, Len(done) - 1),
                        Tail(rest))
         ELSE Normalize(Append(done, Head(rest)), Tail(rest))

\* path.join(base, p)
PathJoin(base, p) == Normalize(<<>>, base \o Segs(p))

\* repoDir = path.join(WORKSPACE_DIR, repoName)
RepoDir(r) == Normalize(<<>>, WORKSPACE_DIR \o <<r>>)

\* file q lies below directory root
IsUnder(q, root) == Len(q) > Len(root) /\ SubSeq(q, 1, Len(root)) = root

\* every file the model's disk can hold
AbsFiles == { PathJoin(RepoDir(r), p) : r \in Repos, p \in PathNames }

\* no containment check in the code: the full path is the joined path
FullPath(repoDir, op) == PathJoin(repoDir, op.path)

\* mutant: a delete unlinks without asking whether the file exists
ApplyOneUnlinkUnchecked(repoDir, op, st, who) ==
    LET fullPath == FullPath(repoDir, op) IN
    IF op.type = "write"
    THEN [fs  |-> [st.fs EXCEPT ![fullPath] = op.content],
          log |-> st.log \cup {<<"FILE", "Written: ", op.path>>},
          eff |-> st.eff \cup {[by |-> who, call |-> "writeFileSync", at |-> fullPath]}]
    ELSE [fs  |-> [st.fs EXCEPT ![fullPath] = Absent],
          log |-> st.log \cup {<<"FILE", "Deleted: ", op.path>>},
          eff |-> st.eff \cup {[by |-> who, call |-> "unlinkSync", at |-> fullPath]}]

\* the body of the for loop, for one operation, on state st = [fs, log, eff]
ApplyOne(repoDir, op, st, who) ==
    LET fullPath == FullPath(repoDir, op) IN
    IF op.type = "write"
    THEN [fs  |-> [st.fs EXCEPT ![fullPath] = op.content],
          log |-> st.log \cup {<<"FILE", "Written: ", op.path>>},
          eff |-> st.eff \cup {[by |-> who, call |-> "writeFileSync", at |-> fullPath]}]
    ELSE IF op.type = "delete" /\ st.fs[fullPath] # Absent
         THEN [fs  |-> [st.fs EXCEPT ![fullPath] = Absent],
               log |-> st.log \cup {<<"FILE", "Deleted: ", op.path>>},
               eff |-> st.eff \cup {[by |-> who, call |-> "unlinkSync", at |-> fullPath]}]
         ELSE st

\* mutant: the operations are applied from the last to the first
RECURSIVE ApplyLoopReversed(_, _, _, _)
ApplyLoopReversed(repoDir, ops, st, who) ==
    IF ops = <<>> THEN st
    ELSE ApplyOne(repoDir, Head(ops), ApplyLoopReversed(repoDir, Tail(ops), st, who), who)

\* for (const op of operations) ... : operations applied in sequence order
RECURSIVE ApplyLoop(_, _, _, _)
ApplyLoop(repoDir, ops, st, who) ==
    IF ops = <<>> THEN st
    ELSE ApplyLoop(repoDir, Tail(ops), ApplyOne(repoDir, Head(ops), st, who), who)

\* applyFileOperations: the state after the loop and the returned count
applyFileOperations(repoDir, ops, st, who) ==
    [st |-> ApplyLoop(repoDir, ops, st, who), count |-> Len(ops)]

----------------------------------------------------------------------------
(* Configuration, strings and messages *)

GITHUB_USERNAME == "sameermotwani17-cell"

\* the value of process.env.GITHUB_TOKEN when it is set
TokenValue == "ghp_secret"

\* a request body field that is missing
NoField == "UNDEFINED"

\* a request body field holding a JSON number (true, an array or an object
\* behave alike: the value is not nullish and has no trim method)
NotAString == "NUMBER"

\* the values of the body's repo and prompt fields
RepoInputs   == {NoField, "", "  ", "r1", " r1 ", "https://github.com/o/r1.git", NotAString}
PromptInputs == {NoField, "", "  ", "fix", NotAString}

\* what kind of JSON value a field of the parsed body is
JsonKind(v) ==
    CASE v = NoField    -> "absent"
      [] v = ""         -> "empty"
      [] v = "  "       -> "whitespace"
      [] v = NotAString -> "number"
      [] OTHER          -> "text"

\* String.prototype.trim on the request fields of the model
StrTrim(s) ==
    CASE s = "  "   -> ""
      [] s = " r1 " -> "r1"
      [] OTHER      -> s

\* !field?.trim()
Blank(s) == s = NoField \/ StrTrim(s) = ""

\* field?.trim() on a value that is not nullish and has no trim method:
\* TypeError, "field?.trim is not a function"
TrimThrows(s) == s = NotAString


\* repoName: the first replace() strips a leading URL up to the owner, the
\* second a trailing ".git"; a bare name is left as it is
RepoName(repo) ==
    CASE repo = "https://github.com/o/r1.git" -> "r1"
      [] OTHER                                 -> repo

\* remoteUrl, as the fragments of the template string
RemoteUrl(repoName) ==
    <<"https://", TokenValue, "@github.com/", GITHUB_USERNAME, "/", repoName, ".git">>

\* the command strings handed to sh()
CloneCmd(repoName)  == <<"git clone ">> \o RemoteUrl(repoName) \o <<" workspace/", repoName>>
SetUrlCmd(repoName) == <<"git remote set-url origin ">> \o RemoteUrl(repoName)
PlainCmd(step) ==
    CASE step = "pull"     -> <<"git pull --rebase">>
      [] step = "cfgEmail" -> <<"git config user.email">>
      [] step = "cfgName"  -> <<"git config user.name">>
      [] step = "status"   -> <<"git status --porcelain">>
      [] step = "add"      -> <<"git add -A">>
      [] step = "commit"   -> <<"git commit -m">>
      [] step = "push"     -> <<"git push origin HEAD">>

\* the command of a step of job record jb
StepCmd(step, jb) ==
    CASE step = "clone"  -> CloneCmd(jb.repoName)
      [] step = "seturl" -> SetUrlCmd(jb.repoName)
      [] OTHER           -> PlainCmd(step)

\* child_process.exec rejects with "Command failed: <cmd>\n<stderr>"
ExecErrorMessage(cmd) == <<"Command failed: ">> \o cmd \o <<"\n", "(stderr)">>

----------------------------------------------------------------------------
(* The webhook handler's responses *)

NoResponse == [code |-> 0, status |-> "none", committed |-> FALSE, error |-> <<>>]

Res400(text) == [code |-> 400, status |-> "error", committed |-> FALSE, error |-> <<text>>]

\* the catch block of the handler: status 500 with err.message
Res500(msg) == [code |-> 500, status |-> "error", committed |-> FALSE, error |-> msg]

\* the answer of the framework's default error handler, when the framework
\* forwards a handler's rejected promise to it
ResDefault500(msg) == [code |-> 500, status |-> "html", committed |-> FALSE, error |-> msg]

\* res.json({status: 'success', committed: result.committed, ...})
Res200(committed) == [code |-> 200, status |-> "success", committed |-> committed, error |-> <<>>]

----------------------------------------------------------------------------
(* The disk and the version-control collaborator *)

\* the relative paths of a working copy that git tracks (everything but .git)
Tracked == {"a"}

\* what a file can hold before any job ran
OldContents == {<<Ch("x")>>, <<Ch("x"), NL>>}

\* the content of a fresh clone's .git/c
GitMeta == <<Ch("g")>>

\* the working tree of repository r as git sees it
WorkTree(f, r) == [p \in Tracked |-> f[PathJoin(RepoDir(r), p)]]

\* git status --porcelain prints nothing iff work tree, index and HEAD agree
PorcelainEmpty(f, g, r) == WorkTree(f, r) = g[r].index /\ g[r].index = g[r].head

\* a successful git clone: the directory with the remote's tree checked out
CloneFs(f, g, r) ==
    [q \in AbsFiles |->
        IF \E p \in Tracked : q = PathJoin(RepoDir(r), p)
        THEN g[r].remote[CHOOSE p \in Tracked : q = PathJoin(RepoDir(r), p)]
        ELSE IF q = PathJoin(RepoDir(r), ".git/c") THEN GitMeta ELSE f[q]]

CloneGit(g, r) ==
    [g EXCEPT ![r].local = TRUE, ![r].head = g[r].remote, ![r].index = g[r].remote]

----------------------------------------------------------------------------
(* getRepoFiles *)

ignore == {".git", "node_modules", ".env"}

\* path.relative(repoDir, fullPath), for a file below repoDir
Relative(r, q) == CHOOSE p \in PathNames \cup WalkNames : PathJoin(RepoDir(r), p) = q

\* the files of disk f that exist below directory dir
FilesBelow(f, dir) == { q \in DOMAIN f : f[q] # Absent /\ IsUnder(q, dir) }

\* fs.readdirSync(dir): the names of the entries of dir
Entries(f, dir) == { q[Len(dir) + 1] : q \in FilesBelow(f, dir) }

\* entry.isDirectory()
IsDirectory(f, fullPath) == FilesBelow(f, fullPath) # {}

\* mutant: the ignore set is consulted for the entries of repoDir only
RECURSIVE walkIgnoringAtTopOnly(_, _, _)
walkIgnoringAtTopOnly(f, r, dir) ==
    UNION { IF dir = RepoDir(r) /\ name \in ignore THEN {}
            ELSE LET fullPath == Append(dir, name) IN
                 IF IsDirectory(f, fullPath) THEN walkIgnoringAtTopOnly(f, r, fullPath)
                 ELSE IF f[fullPath] = Unreadable THEN {}
                 ELSE {[path |-> Relative(r, fullPath), content |-> f[fullPath]]}
          : name \in Entries(f, dir) }

\* walk(dir): an ignored entry is skipped, a directory is walked, a file is
\* read and pushed unless the read throws
RECURSIVE walk(_, _, _)
walk(f, r, dir) ==
    UNION { IF name \in ignore THEN {}
            ELSE LET fullPath == Append(dir, name) IN
                 IF IsDirectory(f, fullPath) THEN walk(f, r, fullPath)
                 ELSE IF f[fullPath] = Unreadable THEN {}
                 ELSE {[path |-> Relative(r, fullPath), content |-> f[fullPath]]}
          : name \in Entries(f, dir) }

\* walk(repoDir); return results
getRepoFiles(f, r) == walk(f, r, RepoDir(r))

----------------------------------------------------------------------------
(* callAnthropicAPI *)

\* the texts the backend answers with in the job model
BackendTexts ==
    { <<Ch("x")>>,                                   \* prose, no block
      <<Open("a"), Ch("x")>>,                        \* an opening tag that is never closed
      <<Open("a"), Ch("x"), Close>>,                 \* write a
      <<Open("a"), Ch("x"), NL, Close>>,             \* write a, content ends in a newline
      <<Del("a")>>,                                  \* delete a
      <<Del("a"), Open("a"), Ch("y"), Close>>,       \* delete a, then write a
      <<Open("../x"), Ch("x"), Close>>,              \* write outside the working copy
      <<Open(".git/c"), Ch("x"), Close>> }           \* write under .git

\* what the HTTPS exchange can deliver
ApiPayloads ==
    { [kind |-> "neterror", text |-> <<>>],          \* req.on('error')
      [kind |-> "garbage",  text |-> <<>>],          \* body is not JSON
      [kind |-> "error",    text |-> <<>>],          \* {error: {message}}
      [kind |-> "nocontent", text |-> <<>>] }        \* JSON without content[0].text
    \cup { [kind |-> "content", text |-> t] : t \in BackendTexts }

\* mutant: the parsed.error check is missing, an error payload resolves to ''
ApiResultIgnoringError(payload) ==
    CASE payload.kind = "neterror" -> [ok |-> FALSE, text |-> <<>>, msg |-> <<"socket hang up">>]
      [] payload.kind = "garbage"  ->
            [ok |-> FALSE, text |-> <<>>, msg |-> <<"Failed to parse Anthropic response: ", "(data)">>]
      [] payload.kind = "content"  -> [ok |-> TRUE, text |-> payload.text, msg |-> <<>>]
      [] OTHER                     -> [ok |-> TRUE, text |-> <<>>, msg |-> <<>>]

\* the promise's outcome: resolve(text) or reject(error)
ApiResult(payload) ==
    CASE payload.kind = "neterror" -> [ok |-> FALSE, text |-> <<>>, msg |-> <<"socket hang up">>]
      [] payload.kind = "garbage"  ->
            [ok |-> FALSE, text |-> <<>>, msg |-> <<"Failed to parse Anthropic response: ", "(data)">>]
      [] payload.kind = "error"    -> [ok |-> FALSE, text |-> <<>>, msg |-> <<"(parsed.error.message)">>]
      [] payload.kind = "nocontent" -> [ok |-> TRUE, text |-> <<>>, msg |-> <<>>]
      [] OTHER                     -> [ok |-> TRUE, text |-> payload.text, msg |-> <<>>]

----------------------------------------------------------------------------
(* Jobs: one per webhook request *)

Jobs == {"j1", "j2"}

IdleJob ==
    [pc |-> "idle", repoName |-> "", prompt |-> "", cloned |-> FALSE,
     existingFiles |-> {}, payload |-> [kind |-> "none", text |-> <<>>],
     claudeResponse |-> <<>>, operations |-> <<>>, gitStatus |-> "unset",
     hist |-> <<>>, res |-> NoResponse,
     body |-> [repo |-> "none", prompt |-> "none"], unpushedBy |-> {},
     overdue |-> FALSE]

Did(step)   == [step |-> step, ok |-> TRUE]
Threw(step) == [step |-> step, ok |-> FALSE]

\* the handler's catch block: log the message, answer 500 with it
Caught(j, h, msg) ==
    /\ job' = [job EXCEPT ![j].pc = "failed",
                          ![j].hist = @ \o h,
                          ![j].res = Res500(msg)]
    /\ log' = log \cup {<<"ERROR">> \o msg}

\* mutant: a rejected sh() is recorded and the step is tried again
ShFailedRetry(j, step) ==
    /\ job' = [job EXCEPT ![j].hist = Append(@, Threw(step))]
    /\ log' = log

\* sh() rejected: the exec error propagates to the catch block
ShFailed(j, step) ==
    Caught(j, <<Threw(step)>>, ExecErrorMessage(StepCmd(step, job[j])))

\* sh() resolved and processRepo goes on to the next await
ShDone(j, step, next) ==
    job' = [job EXCEPT ![j].pc = next, ![j].hist = Append(@, Did(step))]

\* if (!token) throw ...
TokenMissing(e) == ~e.token

\* if (!ANTHROPIC_KEY) throw ...
KeyMissing(e) == ~e.key

\* mutant: the early return on an empty operation list is missing
NoOperationsNever(ops) == FALSE

\* operations.length === 0
NoOperations(ops) == Len(ops) = 0

\* mutant: the early return on an empty status is missing
NoChangesNever(gitStatus) == FALSE

\* !gitStatus
NoChanges(gitStatus) == gitStatus = ""

\* the jobs that committed in repository r, failed at the push, and whose
\* commit the remote still lacks (recorded when a later job starts)
FailedAtPush(r) ==
    { k \in Jobs : /\ job[k].pc = "failed"
                   /\ job[k].repoName = r
                   /\ job[k].hist[Len(job[k].hist)] = Threw("push")
                   /\ git[r].head # git[r].remote }

\* POST /webhook up to the first await of processRepo
Webhook(j) ==
    /\ job[j].pc = "idle"
    /\ \E repo \in RepoInputs, prompt \in PromptInputs :
        LET body == [repo |-> JsonKind(repo), prompt |-> JsonKind(prompt)] IN
        IF TrimThrows(repo) \/ (~Blank(repo) /\ TrimThrows(prompt))
        THEN /\ \E forwarded \in BOOLEAN :
                  job' = [job EXCEPT ![j].pc = "unhandled",
                                     ![j].body = body,
                                     ![j].res = IF forwarded
                                                THEN ResDefault500(<<"trim is not a function">>)
                                                ELSE NoResponse]
             /\ UNCHANGED log
        ELSE IF Blank(repo)
        THEN /\ job' = [job EXCEPT ![j].pc = "rejected",
                                   ![j].body = body,
                                   ![j].res = Res400("\"repo\" is required.")]
             /\ UNCHANGED log
        ELSE IF Blank(prompt)
        THEN /\ job' = [job EXCEPT ![j].pc = "rejected",
                                   ![j].body = body,
                                   ![j].res = Res400("\"prompt\" is required.")]
             /\ UNCHANGED log
        ELSE LET r    == StrTrim(repo)
                 pr   == StrTrim(prompt)
                 name == RepoName(r)
                 line == <<"WEBHOOK", "repo=", r, " prompt=", pr>>
             IN  IF TokenMissing(env)
                 THEN /\ job' = [job EXCEPT ![j].pc = "failed",
                                            ![j].body = body,
                                            ![j].prompt = pr,
                                            ![j].hist = <<Threw("token")>>,
                                            ![j].res = Res500(<<"GITHUB_TOKEN is not set.">>)]
                      /\ log' = log \cup {line, <<"ERROR", "GITHUB_TOKEN is not set.">>}
                 ELSE /\ job' = [job EXCEPT ![j].pc = IF git[name].local THEN "seturl" ELSE "clone",
                                            ![j].body = body,
                                            ![j].repoName = name,
                                            ![j].prompt = pr,
                                            ![j].cloned = ~git[name].local,
                                            ![j].unpushedBy = FailedAtPush(name),
                                            ![j].hist = <<Did("token")>>]
                      /\ log' = log \cup
                            {line,
                             <<"AGENT", "Target: ", GITHUB_USERNAME, "/", name>>,
                             <<"AGENT", "Prompt: ", pr>>,
                             IF git[name].local THEN <<"GIT", "Pulling latest...">>
                                                ELSE <<"GIT", "Cloning ", name, "...">>}
    /\ UNCHANGED <<env, fs, git, effects, response, operations, phase, promptIn, shortPrompt>>

\* git clone "<remoteUrl>" "<repoDir>"
Clone(j) ==
    /\ job[j].pc = "clone"
    /\ \E ok \in BOOLEAN :
        LET r == job[j].repoName IN
        IF ok /\ ~git[r].local
        THEN /\ fs' = CloneFs(fs, git, r)
             /\ git' = CloneGit(git, r)
             /\ ShDone(j, "clone", "cfgEmail")
             /\ UNCHANGED log
        ELSE /\ ShFailed(j, "clone")
             /\ UNCHANGED <<fs, git>>
    /\ UNCHANGED <<env, effects, response, operations, phase, promptIn, shortPrompt>>

\* mutant: after the remote is set the job goes on without pulling
SetUrlSkipsPull(j) ==
    /\ job[j].pc = "seturl"
    /\ \E ok \in BOOLEAN :
        IF ok THEN ShDone(j, "seturl", "cfgEmail") /\ UNCHANGED log
              ELSE ShFailed(j, "seturl")
    /\ UNCHANGED <<env, fs, git, effects, response, operations, phase, promptIn, shortPrompt>>

\* git remote set-url origin "<remoteUrl>"
SetUrl(j) ==
    /\ job[j].pc = "seturl"
    /\ \E ok \in BOOLEAN :
        IF ok THEN ShDone(j, "seturl", "pull") /\ UNCHANGED log
              ELSE ShFailed(j, "seturl")
    /\ UNCHANGED <<env, fs, git, effects, response, operations, phase, promptIn, shortPrompt>>

\* git pull --rebase (the remote moves only by this agent's pushes from this
\* working copy, so a successful pull brings nothing new)
Pull(j) ==
    /\ job[j].pc = "pull"
    /\ \E ok \in BOOLEAN :
        IF ok THEN ShDone(j, "pull", "cfgEmail") /\ UNCHANGED log
              ELSE ShFailed(j, "pull")
    /\ UNCHANGED <<env, fs, git, effects, response, operations, phase, promptIn, shortPrompt>>

\* git config user.email ...
CfgEmail(j) ==
    /\ job[j].pc = "cfgEmail"
    /\ \E ok \in BOOLEAN :
        IF ok THEN ShDone(j, "cfgEmail", "cfgName") /\ UNCHANGED log
              ELSE ShFailed(j, "cfgEmail")
    /\ UNCHANGED <<env, fs, git, effects, response, operations, phase, promptIn, shortPrompt>>

\* git config user.name ..., then getRepoFiles and the start of callAnthropicAPI
CfgName(j) ==
    /\ job[j].pc = "cfgName"
    /\ \E ok \in BOOLEAN :
        IF ~ok THEN ShFailed(j, "cfgName")
        ELSE IF KeyMissing(env)
        THEN /\ job' = [job EXCEPT ![j].pc = "failed",
                                   ![j].existingFiles = getRepoFiles(fs, job[j].repoName),
                                   ![j].hist = @ \o <<Did("cfgName"), Did("getRepoFiles"), Threw("key")>>,
                                   ![j].res = Res500(<<"ANTHROPIC_API_KEY is not set.">>)]
             /\ log' = log \cup {<<"API", "Calling Anthropic API...">>,
                                 <<"ERROR", "ANTHROPIC_API_KEY is not set.">>}
        ELSE /\ job' = [job EXCEPT ![j].pc = "api",
                                   ![j].existingFiles = getRepoFiles(fs, job[j].repoName),
                                   ![j].hist = @ \o <<Did("cfgName"), Did("getRepoFiles"), Did("key")>>]
             /\ log' = log \cup {<<"API", "Calling Anthropic API...">>}
    /\ UNCHANGED <<env, fs, git, effects, response, operations, phase, promptIn, shortPrompt>>

\* the HTTPS exchange ends; on a text: parse, and apply unless nothing was parsed
Api(j) ==
    /\ job[j].pc = "api"
    /\ \E payload \in ApiPayloads :
        LET got == ApiResult(payload)
            ops == parseFileOperations(got.text)
            l1  == log \cup {<<"API", "Anthropic API responded.">>}
        IN  IF ~got.ok
            THEN /\ job' = [job EXCEPT ![j].pc = "failed",
                                       ![j].payload = payload,
                                       ![j].hist = Append(@, Threw("api")),
                                       ![j].res = Res500(got.msg)]
                 /\ log' = log \cup {<<"ERROR">> \o got.msg}
                 /\ UNCHANGED <<fs, effects>>
            ELSE IF NoOperations(ops)
            THEN /\ job' = [job EXCEPT ![j].pc = "done",
                                       ![j].payload = payload,
                                       ![j].claudeResponse = got.text,
                                       ![j].operations = ops,
                                       ![j].hist = @ \o <<Did("api"), Did("parse")>>,
                                       ![j].res = Res200(FALSE)]
                 /\ log' = l1 \cup {<<"AGENT", "No file operations found in response.">>}
                 /\ UNCHANGED <<fs, effects>>
            ELSE LET out == applyFileOperations(RepoDir(job[j].repoName), ops,
                                                [fs |-> fs, log |-> l1, eff |-> effects], j)
                 IN  /\ job' = [job EXCEPT ![j].pc = "status",
                                           ![j].payload = payload,
                                           ![j].claudeResponse = got.text,
                                           ![j].operations = ops,
                                           ![j].hist = @ \o <<Did("api"), Did("parse"), Did("apply")>>]
                     /\ fs' = out.st.fs
                     /\ effects' = out.st.eff
                     /\ log' = out.st.log \cup
                                {<<"AGENT", "Applied ", ToString(out.count), " file operation(s).">>}
    /\ UNCHANGED <<env, git, response, operations, phase, promptIn, shortPrompt>>

\* git status --porcelain
Status(j) ==
    /\ job[j].pc = "status"
    /\ \E ok \in BOOLEAN :
        LET gitStatus == IF PorcelainEmpty(fs, git, job[j].repoName) THEN "" ELSE "changes" IN
        IF ~ok THEN ShFailed(j, "status")
        ELSE IF NoChanges(gitStatus)
        THEN /\ job' = [job EXCEPT ![j].pc = "done",
                                   ![j].gitStatus = gitStatus,
                                   ![j].hist = Append(@, Did("status")),
                                   ![j].res = Res200(FALSE)]
             /\ log' = log \cup {<<"GIT", "No changes to commit.">>}
        ELSE /\ job' = [job EXCEPT ![j].pc = "add",
                                   ![j].gitStatus = gitStatus,
                                   ![j].hist = Append(@, Did("status"))]
             /\ UNCHANGED log
    /\ UNCHANGED <<env, fs, git, effects, response, operations, phase, promptIn, shortPrompt>>

\* git add -A
Add(j) ==
    /\ job[j].pc = "add"
    /\ \E ok \in BOOLEAN :
        LET r == job[j].repoName IN
        IF ok
        THEN /\ git' = [git EXCEPT ![r].index = WorkTree(fs, r)]
             /\ ShDone(j, "add", "commit")
             /\ UNCHANGED log
        ELSE /\ ShFailed(j, "add")
             /\ UNCHANGED git
    /\ UNCHANGED <<env, fs, effects, response, operations, phase, promptIn, shortPrompt>>

\* git commit -m "retro-agent: ..." (git exits non-zero when nothing is staged)
Commit(j) ==
    /\ job[j].pc = "commit"
    /\ \E ok \in BOOLEAN :
        LET r == job[j].repoName IN
        IF ok /\ git[r].index # git[r].head
        THEN /\ git' = [git EXCEPT ![r].head = git[r].index]
             /\ ShDone(j, "commit", "push")
             /\ UNCHANGED log
        ELSE /\ ShFailed(j, "commit")
             /\ UNCHANGED git
    /\ UNCHANGED <<env, fs, effects, response, operations, phase, promptIn, shortPrompt>>

\* git push origin HEAD, then the success return
Push(j) ==
    /\ job[j].pc = "push"
    /\ \E ok \in BOOLEAN :
        LET r == job[j].repoName IN
        IF ok
        THEN /\ git' = [git EXCEPT ![r].remote = git[r].head]
             /\ job' = [job EXCEPT ![j].pc = "done",
                                   ![j].hist = Append(@, Did("push")),
                                   ![j].res = Res200(TRUE)]
             /\ log' = log \cup {<<"GIT", "Pushed ", ToString(Len(job[j].operations)),
                                   " file(s) to ", r, ".">>}
        ELSE /\ ShFailed(j, "push")
             /\ UNCHANGED git
    /\ UNCHANGED <<env, fs, effects, response, operations, phase, promptIn, shortPrompt>>

\* the states before any request: a repository is either not cloned yet or
\* cloned and clean, in step with its remote
InitDisk(loc, t, outside) ==
    /\ git = [r \in Repos |-> [local |-> loc, head |-> t, index |-> t, remote |-> t]]
    /\ fs = [q \in AbsFiles |->
                IF \E r \in Repos, p \in Tracked : q = PathJoin(RepoDir(r), p)
                THEN (IF loc THEN t[CHOOSE p \in Tracked :
                                       \E r \in Repos : q = PathJoin(RepoDir(r), p)]
                             ELSE Absent)
                ELSE IF \E r \in Repos : q = PathJoin(RepoDir(r), ".git/c")
                THEN (IF loc THEN GitMeta ELSE Absent)
                ELSE outside]

Trees0 == [Tracked -> OldContents \cup {Absent}]

Init ==
    /\ env \in [token : BOOLEAN, key : BOOLEAN]
    /\ \E loc \in BOOLEAN, t \in Trees0, outside \in {Absent, <<Ch("x"), NL>>} :
          InitDisk(loc, t, outside)
    /\ job = [j \in Jobs |-> IdleJob]
    /\ log = {}
    /\ effects = {}
    /\ response = <<>>
    /\ operations = <<>>
    /\ phase = "off"
    /\ promptIn = <<>>
    /\ shortPrompt = <<>>

\* one step of the request that job j serves
JobStep(j) ==
    \/ Webhook(j)
    \/ Clone(j)
    \/ SetUrl(j)
    \/ Pull(j)
    \/ CfgEmail(j)
    \/ CfgName(j)
    \/ Api(j)
    \/ Status(j)
    \/ Add(j)
    \/ Commit(j)
    \/ Push(j)

Next == \E j \in Jobs : JobStep(j)

Spec == Init /\ [][Next]_vars

----------------------------------------------------------------------------
(* One request observed against the wall clock *)

\* the requests that are timed
Timed == {"j1"}

\* the deadline for the generative call passes while the HTTPS request of
\* callAnthropicAPI is in flight: the promise has no timer, so nothing runs
DeadlinePasses(j) ==
    /\ job[j].pc = "api"
    /\ ~job[j].overdue
    /\ job' = [job EXCEPT ![j].overdue = TRUE]
    /\ UNCHANGED <<env, fs, git, log, effects, response, operations, phase, promptIn, shortPrompt>>

NextTimed == \E j \in Timed : JobStep(j) \/ DeadlinePasses(j)

SpecTimed == Init /\ [][NextTimed]_vars

----------------------------------------------------------------------------
(* The parser and the applier on their own: every text up to MaxLen tokens *)

\* the tags and characters of a text; a tag with path="" is malformed
Alphabet ==
    {Open(p) : p \in PathNames \cup {""}} \cup {Del(p) : p \in PathNames \cup {""}}
        \cup {Close, Ch("x"), NL}

Texts == UNION { [1..n -> Alphabet] : n \in 0..MaxLen }

HarnessRepo == "r1"

InitPA ==
    /\ env = [token |-> TRUE, key |-> TRUE]
    /\ \E t \in Trees0, outside \in {Absent, <<Ch("x"), NL>>} : InitDisk(TRUE, t, outside)
    /\ job = [j \in Jobs |-> IdleJob]
    /\ log = {}
    /\ effects = {}
    /\ response \in Texts
    /\ operations = <<>>
    /\ phase = "text"
    /\ promptIn = <<>>
    /\ shortPrompt = <<>>

\* const operations = parseFileOperations(claudeResponse)
Parse ==
    /\ phase = "text"
    /\ operations' = parseFileOperations(response)
    /\ phase' = "parsed"
    /\ UNCHANGED <<env, fs, git, job, log, effects, response, promptIn, shortPrompt>>

\* const count = applyFileOperations(repoDir, operations)
Apply ==
    /\ phase = "parsed"
    /\ LET out == applyFileOperations(RepoDir(HarnessRepo), operations,
                                      [fs |-> fs, log |-> log, eff |-> effects], "harness")
       IN  /\ fs' = out.st.fs
           /\ log' = out.st.log
           /\ effects' = out.st.eff
    /\ phase' = "applied"
    /\ UNCHANGED <<env, git, job, response, operations, promptIn, shortPrompt>>

NextPA == Parse \/ Apply

SpecPA == InitPA /\ [][NextPA]_vars

----------------------------------------------------------------------------
(* The applier on its own: every operation sequence up to MaxOps *)

\* the operations parseFileOperations can build: a write of a trimmed
\* content, or a delete, of a path
Ops ==
    {[type |-> "write", path |-> p, content |-> c] :
        p \in PathNames, c \in {<<>>, <<Ch("x")>>}}
    \cup {[type |-> "delete", path |-> p] : p \in PathNames}

OpSeqs == UNION { [1..n -> Ops] : n \in 0..MaxOps }

InitApply ==
    /\ env = [token |-> TRUE, key |-> TRUE]
    /\ \E t \in Trees0, outside \in {Absent, <<Ch("x"), NL>>} : InitDisk(TRUE, t, outside)
    /\ job = [j \in Jobs |-> IdleJob]
    /\ log = {}
    /\ effects = {}
    /\ response = <<>>
    /\ operations \in OpSeqs
    /\ phase = "parsed"
    /\ promptIn = <<>>
    /\ shortPrompt = <<>>

NextApply == Apply

SpecApply == InitApply /\ [][NextApply]_vars

----------------------------------------------------------------------------
(* getRepoFiles on its own: every working copy over the files of WalkNames *)

HarnessJob == "j1"

WalkFiles == { PathJoin(RepoDir(HarnessRepo), p) : p \in WalkNames }

InitWalk ==
    /\ env = [token |-> TRUE, key |-> TRUE]
    /\ LET t == CHOOSE u \in Trees0 : TRUE
       IN  git = [r \in Repos |-> [local |-> TRUE, head |-> t, index |-> t, remote |-> t]]
    /\ fs \in [WalkFiles -> {Absent, <<Ch("x")>>, Unreadable}]
    /\ job = [j \in Jobs |-> IdleJob]
    /\ log = {}
    /\ effects = {}
    /\ response = <<>>
    /\ operations = <<>>
    /\ phase = "tree"
    /\ promptIn = <<>>
    /\ shortPrompt = <<>>

\* const existingFiles = getRepoFiles(repoDir)
Collect ==
    /\ phase = "tree"
    /\ job' = [job EXCEPT ![HarnessJob].existingFiles = getRepoFiles(fs, HarnessRepo)]
    /\ phase' = "collected"
    /\ UNCHANGED <<env, fs, git, log, effects, response, operations, promptIn, shortPrompt>>

NextWalk == Collect

SpecWalk == InitWalk /\ [][NextWalk]_vars

----------------------------------------------------------------------------
(* The commit message on its own: prompts of every length up to MaxPromptLen *)

\* the length above which a prompt is cut, and how much of it is kept
SubjectBound == 72
KeptChars    == 69

\* a prompt of n characters: all "a", but a "b" at position k (none if k = 0)
PromptOf(n, k) == [i \in 1..n |-> IF i = k THEN "b" ELSE "a"]

\* what processRepo can receive: trimmed and not empty
Prompts == { PromptOf(n, k) : n \in 1..MaxPromptLen, k \in 0..MaxPromptLen }

\* mutant: a prompt of exactly the bound is cut too
ShortPromptAtBound(pr) ==
    IF Len(pr) >= SubjectBound
    THEN SubSeq(pr, 1, KeptChars) \o <<".", ".", ".">>
    ELSE pr

\* prompt.length > 72 ? prompt.slice(0, 69) + '...' : prompt
ShortPrompt(pr) ==
    IF Len(pr) > SubjectBound
    THEN SubSeq(pr, 1, KeptChars) \o <<".", ".", ".">>
    ELSE pr

InitMsg ==
    /\ env = [token |-> TRUE, key |-> TRUE]
    /\ InitDisk(TRUE, CHOOSE t \in Trees0 : TRUE, Absent)
    /\ job = [j \in Jobs |-> IdleJob]
    /\ log = {}
    /\ effects = {}
    /\ response = <<>>
    /\ operations = <<>>
    /\ phase = "off"
    /\ promptIn \in Prompts
    /\ shortPrompt = <<>>

\* const shortPrompt = ...
Shorten ==
    /\ shortPrompt = <<>>
    /\ shortPrompt' = ShortPrompt(promptIn)
    /\ UNCHANGED <<env, fs, git, job, log, effects, response, operations, phase, promptIn>>

NextMsg == Shorten

SpecMsg == InitMsg /\ [][NextMsg]_vars

----------------------------------------------------------------------------
(* Vocabulary of the claims *)

\* a message (or log line) holds the credential
HasToken(msg) == \E i \in 1..Len(msg) : msg[i] = TokenValue

\* the working-copy root a caller of applyFileOperations passed
RootOf(who) == IF who \in Jobs THEN RepoDir(job[who].repoName) ELSE RepoDir(HarnessRepo)

\* position of the first tag after position i, 0 if none
NextTag(t, i) ==
    IF \E e \in (i + 1)..Len(t) : t[e].k # "ch"
    THEN CHOOSE e \in (i + 1)..Len(t) :
            t[e].k # "ch" /\ \A d \in (i + 1)..(e - 1) : t[d].k = "ch"
    ELSE 0

\* t is prose, delete blocks and write blocks whose content holds no tag
RECURSIVE WellFormed(_, _)
WellFormed(t, i) ==
    IF i > Len(t) THEN TRUE
    ELSE CASE t[i].k = "ch"    -> WellFormed(t, i + 1)
           [] t[i].k = "del"   -> t[i].v # "" /\ WellFormed(t, i + 1)
           [] t[i].k = "open"  -> /\ t[i].v # ""
                                  /\ NextTag(t, i) # 0
                                  /\ t[NextTag(t, i)].k = "close"
                                  /\ WellFormed(t, NextTag(t, i) + 1)
           [] OTHER            -> FALSE

\* the blocks of a text in textual order, read in one pass from position i
RECURSIVE TextualBlocks(_, _)
TextualBlocks(t, i) ==
    IF i > Len(t) THEN <<>>
    ELSE CASE t[i].k = "del" /\ t[i].v # "" ->
                <<[type |-> "delete", path |-> t[i].v]>> \o TextualBlocks(t, i + 1)
           [] t[i].k = "open" /\ t[i].v # "" /\ FirstCloseAfter(t, i) # 0 ->
                <<[type |-> "write", path |-> t[i].v,
                   content |-> Trim(SubSeq(t, i + 1, FirstCloseAfter(t, i) - 1))]>>
                \o TextualBlocks(t, FirstCloseAfter(t, i) + 1)
           [] OTHER -> TextualBlocks(t, i + 1)

\* the last block of sequence bs that names path p (bs names p)
LastNaming(bs, p) ==
    bs[CHOOSE i \in 1..Len(bs) :
          bs[i].path = p /\ \A k \in (i + 1)..Len(bs) : bs[k].path # p]

Names(bs, p) == \E i \in 1..Len(bs) : bs[i].path = p

\* job j ran step, and it succeeded / whatever its outcome
Ran(j, step)  == \E i \in 1..Len(job[j].hist) : job[j].hist[i].step = step
RanOk(j, step) == \E i \in 1..Len(job[j].hist) : job[j].hist[i] = Did(step)

----------------------------------------------------------------------------
(* C1..C10 *)

\* C1: containment. Every file applyFileOperations wrote or unlinked lies
\* below the working-copy root it was called with (an operation whose path
\* resolves outside the root is rejected, so nothing outside is created,
\* overwritten or deleted).
C1_Containment == \A e \in effects : IsUnder(e.at, RootOf(e.by))

\* C2: for a response made of well-formed write and delete blocks in any
\* interleaving, parseFileOperations returns the blocks in textual order:
\* as many operations as blocks, the i-th operation being the i-th block.
C2_TextualOrder ==
    (phase # "text" /\ WellFormed(response, 1))
        => operations = TextualBlocks(response, 1)

\* C3: after parsing a response and applying the result, every path the
\* response names is in the state its textually last block gives it: the
\* file holds that block's content if it is a write block and is absent if
\* it is a delete block.
C3_LastBlockWins ==
    (phase = "applied" /\ WellFormed(response, 1)) =>
        \A p \in PathNames :
            Names(TextualBlocks(response, 1), p) =>
                LET b == LastNaming(TextualBlocks(response, 1), p)
                    q == PathJoin(RepoDir(HarnessRepo), p)
                IN  fs[q] = (IF b.type = "write" THEN b.content ELSE Absent)

\* C4: the credential of the remote URL is in no log line and in no HTTP
\* response body, whatever step of a job failed.
C4_TokenNeverExposed ==
    /\ \A line \in log : ~HasToken(line)
    /\ \A j \in Jobs : ~HasToken(job[j].res.error)

MutatingSteps ==
    {"clone", "seturl", "pull", "cfgEmail", "cfgName", "apply", "add", "commit", "push"}

\* C5: with a required credential absent, a job runs no mutating step (no
\* clone, set-url, pull, git config, file write or delete, add, commit or
\* push) and never ends as a success.
C5_NoMutationWithoutCredential ==
    (TokenMissing(env) \/ KeyMissing(env)) =>
        \A j \in Jobs :
            /\ \A s \in MutatingSteps : ~Ran(j, s)
            /\ job[j].pc # "done"

\* job j is awaiting one of its steps, clone or set-url at the earliest and
\* push at the latest
InFlight(j) ==
    job[j].pc \in {"clone", "seturl", "pull", "cfgEmail", "cfgName", "api",
                   "status", "add", "commit", "push"}

\* C6: at most one job naming a repository is between the start of
\* Materializing and the end of CommittingAndPushing.
C6_MutualExclusion ==
    \A j, k \in Jobs :
        (j # k /\ InFlight(j) /\ InFlight(k)) => job[j].repoName # job[k].repoName

\* job j is the only job that has run a step (no other request got past its
\* credential check and first await)
Alone(j) == \A k \in Jobs \ {j} : Len(job[k].hist) <= 1

\* the file-system calls applyFileOperations made for job j
EffectsOf(j) == { e \in effects : e.by = j }

\* the response of job j is exactly one write block, for a path of the working
\* copy that getRepoFiles did not find
OneNewFile(j) ==
    LET bs == TextualBlocks(job[j].claudeResponse, 1) IN
    /\ Len(bs) = 1
    /\ bs[1].type = "write"
    /\ bs[1].path \in Tracked
    /\ \A f \in job[j].existingFiles : f.path # bs[1].path

\* C7: commit decision. (i) committed = true only after a non-empty status
\* and then add, commit and push, each successful, in that order; (ii) an
\* empty status ends the job as a success with committed = false and without
\* add, commit or push; (iii) a job that cloned its repository (no prior local
\* copy), ran alone on it and got one write block for a new file ends with the
\* file holding the block's content, a commit holding it, and committed = true.
C7_CommitDecision ==
    \A j \in Jobs :
        LET h == job[j].hist
            n == Len(h)
        IN
        /\ job[j].res.committed =>
              /\ job[j].res = Res200(TRUE)
              /\ job[j].gitStatus = "changes"
              /\ n >= 4
              /\ SubSeq(h, n - 3, n) = <<Did("status"), Did("add"), Did("commit"), Did("push")>>
        /\ job[j].gitStatus = "" =>
              /\ job[j].pc = "done"
              /\ job[j].res = Res200(FALSE)
              /\ \A s \in {"add", "commit", "push"} : ~Ran(j, s)
        /\ (job[j].pc = "done" /\ job[j].cloned /\ Alone(j) /\ OneNewFile(j)) =>
              LET b == TextualBlocks(job[j].claudeResponse, 1)[1]
                  r == job[j].repoName
              IN  /\ fs[PathJoin(RepoDir(r), b.path)] = b.content
                  /\ job[j].gitStatus = "changes"
                  /\ RanOk(j, "commit")
                  /\ git[r].head[b.path] = b.content
                  /\ job[j].res = Res200(TRUE)

C7_Witness ==
    \E j \in Jobs :
        /\ job[j].pc = "done" /\ job[j].cloned /\ Alone(j) /\ OneNewFile(j)
        /\ job[j].res.committed

\* C8: a response without tagged blocks ends the job as a success with
\* committed = false, and the job wrote and deleted no file and ran no add,
\* commit or push.
C8_NoBlocksNoChange ==
    \A j \in Jobs :
        (RanOk(j, "api") /\ TextualBlocks(job[j].claudeResponse, 1) = <<>>) =>
            /\ job[j].pc = "done"
            /\ job[j].res = Res200(FALSE)
            /\ EffectsOf(j) = {}
            /\ \A s \in {"apply", "add", "commit", "push"} : ~Ran(j, s)

C8_Witness ==
    \E j \in Jobs :
        /\ RanOk(j, "api")
        /\ job[j].claudeResponse # <<>>
        /\ TextualBlocks(job[j].claudeResponse, 1) = <<>>
        /\ job[j].pc = "done"
        /\ \E k \in Jobs \ {j} : EffectsOf(k) # {}

\* the write blocks of a text with their content as written, untrimmed
RECURSIVE RawWrites(_, _)
RawWrites(t, i) ==
    IF i > Len(t) THEN {}
    ELSE IF t[i].k = "open" /\ t[i].v # "" /\ FirstCloseAfter(t, i) # 0
         THEN {[path |-> t[i].v, content |-> SubSeq(t, i + 1, FirstCloseAfter(t, i) - 1)]}
              \cup RawWrites(t, FirstCloseAfter(t, i) + 1)
         ELSE RawWrites(t, i + 1)

\* the response of job j is write blocks only, each with the very content
\* getRepoFiles read for that path
Regenerates(j) ==
    LET t == job[j].claudeResponse IN
    /\ WellFormed(t, 1)
    /\ TextualBlocks(t, 1) # <<>>
    /\ \A i \in 1..Len(TextualBlocks(t, 1)) : TextualBlocks(t, 1)[i].type = "write"
    /\ RawWrites(t, 1) \subseteq job[j].existingFiles

\* C9: when the write blocks regenerate the files' current content, the
\* status after applying is empty, nothing is committed or pushed and the job
\* reports committed = false (stated for a job running alone on its
\* repository, so that no other job's writes are involved).
C9_IdenticalContentNoCommit ==
    \A j \in Jobs :
        (Alone(j) /\ Regenerates(j) /\ RanOk(j, "status")) =>
            /\ job[j].gitStatus = ""
            /\ ~Ran(j, "commit")
            /\ ~Ran(j, "push")
            /\ ~job[j].res.committed

BadPayloads == {"neterror", "garbage", "error"}

\* C10: a generative call that fails, or answers with an unparseable or
\* error payload, ends the job Failed; the job touched no file and ran no
\* parse, apply, status, add, commit or push.
C10_BackendErrorNoTouch ==
    \A j \in Jobs :
        job[j].payload.kind \in BadPayloads =>
            /\ job[j].pc = "failed"
            /\ job[j].res.code = 500
            /\ EffectsOf(j) = {}
            /\ \A s \in {"parse", "apply", "status", "add", "commit", "push"} : ~Ran(j, s)

C10_Witness ==
    \E j \in Jobs :
        /\ job[j].payload.kind = "error"
        /\ job[j].pc = "failed"
        /\ Ran(j, "api")

----------------------------------------------------------------------------
(* C11..C20 *)

\* the steps that run git through sh()
VcsSteps == {"clone", "seturl", "pull", "cfgEmail", "cfgName",
             "status", "add", "commit", "push"}

\* job j has a sh() step that exited non-zero
VcsFailed(j) ==
    \E i \in 1..Len(job[j].hist) : job[j].hist[i] \in {Threw(s) : s \in VcsSteps}

\* C11: when a git subprocess step exits non-zero the job is Failed, the
\* failing step is the last entry of its history (nothing runs after it),
\* no step was run twice, the failing transition leaves every file and
\* every recorded file-system call as they were (no rollback), and a
\* failed job never acts again.
C11_VcsFailureIsFatal ==
    [][\A j \in Jobs :
          /\ VcsFailed(j)' =>
                LET h == job'[j].hist
                IN  /\ job'[j].pc = "failed"
                    /\ job'[j].res.code = 500
                    /\ ~h[Len(h)].ok
                    /\ \A i \in 1..(Len(h) - 1) : h[i].ok
                    /\ \A i, k \in 1..Len(h) : i # k => h[i].step # h[k].step
          /\ (job[j].pc # "failed" /\ job'[j].pc = "failed") =>
                (fs' = fs /\ effects' = effects /\ git' = git)
          /\ job[j].pc = "failed" => job'[j] = job[j]
      ]_vars

\* a job wrote a file, committed it, and failed at the push: the file
\* still holds what the job wrote
C11_Witness ==
    \E j \in Jobs :
        /\ job[j].pc = "failed"
        /\ job[j].hist[Len(job[j].hist)] = Threw("push")
        /\ \E e \in EffectsOf(j) :
              e.call = "writeFileSync" /\ fs[e.at] # Absent

\* C12: once the deadline has passed with the generative call in flight,
\* the job uses no answer of the backend: it runs no parse, apply, status,
\* add, commit or push, and it does not end Done.
C12_DeadlineBoundsGeneration ==
    \A j \in Jobs :
        job[j].overdue =>
            /\ ~RanOk(j, "api")
            /\ \A s \in {"parse", "apply", "status", "add", "commit", "push"} : ~Ran(j, s)
            /\ job[j].pc # "done"

\* a body field that is absent, empty or whitespace-only
BlankKinds == {"absent", "empty", "whitespace"}

\* C13: every request whose repo or prompt field is absent, empty or
\* whitespace-only is answered 400 with status "error" and an error text,
\* and no job step is started for it.
C13_BlankFieldRejected ==
    \A j \in Jobs :
        (job[j].pc # "idle" /\ (job[j].body.repo \in BlankKinds \/ job[j].body.prompt \in BlankKinds)) =>
            /\ job[j].pc = "rejected"
            /\ job[j].res.code = 400
            /\ job[j].res.status = "error"
            /\ job[j].res.error # <<>>
            /\ job[j].hist = <<>>

\* the part of C13 that the code keeps: with a repo that is a string or
\* missing, a blank field is answered 400 and starts nothing
C13_BlankFieldRejectedForStrings ==
    \A j \in Jobs :
        (/\ job[j].pc # "idle"
         /\ job[j].body.repo # "number"
         /\ (job[j].body.repo \in BlankKinds \/ job[j].body.prompt \in BlankKinds)) =>
            /\ job[j].pc = "rejected"
            /\ job[j].res.code = 400
            /\ job[j].hist = <<>>

\* the handler of job j's request has returned or thrown
Ended(j) == job[j].pc \in {"rejected", "unhandled", "failed", "done"}

\* C14: a request whose handler has ended has its one response, and none
\* is sent before; a job that failed is answered 500 with status "error"
\* and the message of the error that was logged; status "success" is
\* answered only to a job that is Done.
C14_ExactlyOneResponse ==
    \A j \in Jobs :
        /\ Ended(j) <=> job[j].res # NoResponse
        /\ job[j].pc = "failed" =>
              /\ job[j].res.code = 500
              /\ job[j].res.status = "error"
              /\ (<<"ERROR">> \o job[j].res.error) \in log
        /\ job[j].res.status = "success" => job[j].pc = "done"

\* C15: a response text with no recognizable block (empty, prose only,
\* tags with an empty path, write tags that are never closed, stray closing
\* tags) parses to the empty operation sequence: the parse step completes
\* and yields nothing.
C15_NoBlocksParseEmpty ==
    (phase # "text" /\ TextualBlocks(response, 1) = <<>>) => operations = <<>>

\* parsed: an unclosed write tag next to a closed one whose path is empty
C15_Witness ==
    /\ phase = "parsed"
    /\ operations = <<>>
    /\ \E i, k \in 1..Len(response) :
          /\ response[i] = Open("a") /\ FirstCloseAfter(response, i) = 0
          /\ response[k] = Open("") /\ FirstCloseAfter(response, k) # 0

\* C16: the text derived from a prompt longer than 72 characters is its
\* first 69 characters followed by "...", 72 characters in all; a prompt of
\* at most 72 characters is taken verbatim; the derived text is never
\* longer than 72 characters.
C16_CommitSubjectBound ==
    shortPrompt # <<>> =>
        /\ Len(promptIn) > 72 =>
              /\ Len(shortPrompt) = 72
              /\ \A i \in 1..69 : shortPrompt[i] = promptIn[i]
              /\ \A i \in 70..72 : shortPrompt[i] = "."
        /\ Len(promptIn) <= 72 => shortPrompt = promptIn
        /\ Len(shortPrompt) <= 72

\* a promptIn of 73 characters whose 70th character is cut off
C16_Witness ==
    /\ Len(promptIn) = 73
    /\ promptIn[70] = "b"
    /\ shortPrompt # <<>>
    /\ shortPrompt[70] = "."

\* the relative paths that resolve below the harness's working-copy root
InsidePaths == { p \in PathNames : IsUnder(PathJoin(RepoDir(HarnessRepo), p), RepoDir(HarnessRepo)) }

\* the file that relative path p names in the harness's working copy
FileOf(p) == PathJoin(RepoDir(HarnessRepo), p)

\* position of the last write to p in sequence ops, 0 if there is none
LastWriteTo(ops, p) ==
    IF \E i \in 1..Len(ops) : ops[i].type = "write" /\ ops[i].path = p
    THEN CHOOSE i \in 1..Len(ops) :
            /\ ops[i].type = "write" /\ ops[i].path = p
            /\ \A k \in (i + 1)..Len(ops) : ~(ops[k].type = "write" /\ ops[k].path = p)
    ELSE 0

\* C17 as stated: after applying any operation sequence, every path inside
\* the root that the sequence writes holds the content of the last write
\* to it in the sequence.
C17_LastWriteWins ==
    phase = "applied" =>
        \A p \in InsidePaths :
            LastWriteTo(operations, p) # 0 =>
                fs[FileOf(p)] = operations[LastWriteTo(operations, p)].content

\* C17 amended: after applying any operation sequence, every path inside
\* the root that the sequence writes holds the content of the last write
\* to it, unless a delete of the path follows that write: then the file
\* does not exist.
C17_LastWriteWinsUnlessDeleted ==
    phase = "applied" =>
        \A p \in InsidePaths :
            LET w == LastWriteTo(operations, p) IN
            w # 0 =>
                IF \E k \in (w + 1)..Len(operations) :
                      operations[k].type = "delete" /\ operations[k].path = p
                THEN fs[FileOf(p)] = Absent
                ELSE fs[FileOf(p)] = operations[w].content

\* applied [Write(a, x), Write(a, empty)]: the file holds the second content
C17_Witness ==
    /\ phase = "applied"
    /\ Len(operations) = 2
    /\ operations[1] = [type |-> "write", path |-> "a", content |-> <<Ch("x")>>]
    /\ operations[2] = [type |-> "write", path |-> "a", content |-> <<>>]
    /\ fs[FileOf("a")] = <<>>

\* the sequence is n deletes of path p and nothing else
DeletesOf(ops, n, p) ==
    Len(ops) = n /\ \A i \in 1..n : ops[i] = [type |-> "delete", path |-> p]

\* C18: applying Delete(p) when p does not exist completes, issues no
\* file-system call and leaves every file as it was; applying Delete(p)
\* twice leaves the same files as applying it once: the disk as it was,
\* with p absent.
C18_DeleteIdempotent ==
    [][(phase = "parsed" /\ phase' = "applied") =>
          \A p \in PathNames :
              /\ (DeletesOf(operations, 1, p) /\ fs[FileOf(p)] = Absent) =>
                    (fs' = fs /\ effects' = effects)
              /\ (DeletesOf(operations, 1, p) \/ DeletesOf(operations, 2, p)) =>
                    fs' = [fs EXCEPT ![FileOf(p)] = Absent]
      ]_vars

\* applied [Delete(a)] on a working copy that had no file a: no unlink ran
C18_Witness ==
    /\ phase = "applied"
    /\ DeletesOf(operations, 1, "a")
    /\ effects = {}
    /\ fs[FileOf("a")] = Absent

\* the step names of a history, in order
Steps(h) == [i \in 1..Len(h) |-> h[i].step]

\* the steps of each orchestrator state, in the order processRepo runs them
Materializing     == {<<"token", "clone", "cfgEmail", "cfgName">>,
                      <<"token", "seturl", "pull", "cfgEmail", "cfgName">>}
CollectingContext == <<"getRepoFiles">>
Generating        == <<"key", "api">>
Parsing           == <<"parse">>
Applying          == <<"apply">>
DetectingChanges  == <<"status">>
CommittingAndPushing == <<"add", "commit", "push">>

\* the step sequences of a job that went through every state and then
\* committed and pushed, or skipped
ThroughAll(last) ==
    { m \o CollectingContext \o Generating \o Parsing \o Applying \o DetectingChanges \o last :
        m \in Materializing }

\* the step sequences of a job that returned right after Parsing
ThroughParsing ==
    { m \o CollectingContext \o Generating \o Parsing : m \in Materializing }

IsPrefix(a, b) == Len(a) <= Len(b) /\ SubSeq(b, 1, Len(a)) = a

\* what C19 says of every job after each of its steps: no step twice, the
\* steps run so far are an initial part of the full order, a step that
\* threw is the last one, Done and Failed exclude each other and are final
SequencingCommon(j) ==
    LET h == job'[j].hist
    IN  job'[j] # job[j] =>
            /\ \A i, k \in 1..Len(h) : i # k => h[i].step # h[k].step
            /\ \E m \in Materializing :
                  IsPrefix(Steps(h), m \o CollectingContext \o Generating \o Parsing
                                       \o Applying \o DetectingChanges \o CommittingAndPushing)
            /\ \A i \in 1..(Len(h) - 1) : h[i].ok
            /\ (job'[j].pc = "failed") <=> (h # <<>> /\ ~h[Len(h)].ok)
            /\ job'[j].pc = "done" => job'[j].res.status = "success"
            /\ job[j].pc \notin {"done", "failed"}

\* C19 as stated: every Done job ran the steps of Materializing,
\* CollectingContext, Generating, Parsing, Applying and DetectingChanges,
\* in that order and once each, and then either the steps of
\* CommittingAndPushing or none (Skipped); no step is run twice; Done and
\* Failed are final and exclude each other.
C19_Sequencing ==
    [][\A j \in Jobs :
          /\ SequencingCommon(j)
          /\ (job'[j] # job[j] /\ job'[j].pc = "done") =>
                Steps(job'[j].hist) \in
                    (IF job'[j].res.committed THEN ThroughAll(CommittingAndPushing)
                                              ELSE ThroughAll(<<>>))
      ]_vars

\* C19 amended: as C19, but a job for which nothing was parsed is Done
\* right after Parsing, without Applying and DetectingChanges; every
\* other Done job went through all the states.
C19_SequencingWithEarlyReturn ==
    [][\A j \in Jobs :
          /\ SequencingCommon(j)
          /\ (job'[j] # job[j] /\ job'[j].pc = "done") =>
                Steps(job'[j].hist) \in
                    (IF job'[j].operations = <<>> THEN ThroughParsing
                     ELSE IF job'[j].res.committed THEN ThroughAll(CommittingAndPushing)
                     ELSE ThroughAll(<<>>))
      ]_vars

\* a job Done after a pull, an apply, a commit and a push; another Done
\* right after Parsing
C19_Witness ==
    \E j, k \in Jobs :
        /\ job[j].pc = "done" /\ Ran(j, "pull") /\ Ran(j, "push")
        /\ job[k].pc = "done" /\ ~Ran(k, "apply")

\* C20: a job that started after another job of the same repository had
\* committed and failed at the push does not end Done while the local
\* HEAD is still missing from the remote.
C20_UnpushedCommitDetected ==
    \A j \in Jobs :
        (job[j].pc = "done" /\ job[j].unpushedBy # {}) =>
            git[job[j].repoName].head = git[job[j].repoName].remote

----------------------------------------------------------------------------
(* C21..C23 *)

\* the positions of text t strictly inside a write block that fileRegex
\* matched, reading from position from
RECURSIVE InsideWrites(_, _)
InsideWrites(t, from) ==
    LET s == FileRegexExec(t, from) IN
    IF s = 0 THEN {}
    ELSE (s + 1)..(FirstCloseAfter(t, s) - 1) \cup InsideWrites(t, FirstCloseAfter(t, s) + 1)

\* the delete operations of a sequence, in order
DeleteOps(ops) == SelectSeq(ops, LAMBDA o : o.type = "delete")

\* C21: no part of the text gives more than one operation: a delete tag
\* inside the content of a write block gives no delete operation, so the
\* delete operations are exactly the delete tags outside write blocks.
C21_NonOverlapping ==
    phase # "text" =>
        Len(DeleteOps(operations)) =
            Cardinality({ i \in 1..Len(response) :
                            /\ response[i].k = "del"
                            /\ response[i].v # ""
                            /\ i \notin InsideWrites(response, 1) })

\* file q lies in the .git directory of the working copy at root
InDotGit(q, root) == IsUnder(q, root) /\ q[Len(root) + 1] = ".git"

\* C22: no file under the working copy's .git directory is written or
\* unlinked by applyFileOperations, whatever the operation sequence.
C22_MetadataUntouched ==
    \A e \in effects : ~InDotGit(e.at, RootOf(e.by))

\* a component of relative path p is .git, node_modules or .env
UnderIgnored(p) ==
    \E i \in 1..Len(Segs(p)) : Segs(p)[i] \in {".git", "node_modules", ".env"}

\* the snapshots of the harness's job
Snapshots == job[HarnessJob].existingFiles

====
